---- MODULE Spec2Model ----
(***************************************************************************)
(* MechGen job lifecycle: the dataset registry, the job store, the frame   *)
(* output store, the two submit handlers, the trigger handler and the two  *)
(* background runners (processJobInBackground and processDataset), each    *)
(* store call being one atomic step that either commits or throws.         *)
(*                                                                         *)
(* The background invocations are an invocation and its duplicate: two     *)
(* runs, started in any order by any of the handlers, on the same job or   *)
(* on different jobs, one after the other or interleaved.                  *)
(*                                                                         *)
(* Conventions.  A nullable integer column holds NULL when it is SQL NULL. *)
(* A nullable text column holds "" when it is SQL NULL: the code passes    *)
(* every text parameter through `x || null`, which maps the empty string   *)
(* to NULL as well.  Timestamps are readings of the logical clock `now`.   *)
(* The columns created_at and updated_at are not modelled.                 *)
(***************************************************************************)
EXTENDS Integers, Sequences, FiniteSets, TLC

\* ------------------------------------------------------------------ bounds
MaxJobs == 1
MaxFiles == 2

\* ------------------------------------------------------- program constants
NULL == -1
maxFrames == 10
SafetyLimit == 1000
MockFrameCount == 3

VARIABLES
    datasets,   \* table datasets: row id = position
    jobs,       \* table processing_jobs: row id = position
    outputs,    \* table compressed_outputs: row id = position (insertion order)
    runners,    \* the invocations in flight: background runs; the handler, provider
                \* and ensureDatabase calls of the smaller specifications
    now,        \* logical clock read by `new Date()`
    client      \* the browser: the JobStatus component and its requests in flight

vars == <<datasets, jobs, outputs, runners, now, client>>

Terminal == {"completed", "failed"}

\* ------------------------------------------------------------ SQL helpers
\* COALESCE(a, b) on a nullable integer
COALESCE(a, b) == IF a # NULL THEN a ELSE b

\* COALESCE(a, b) on a nullable text
COALESCE_TEXT(a, b) == IF a # "" THEN a ELSE b

\* JavaScript `x || null` on a number: 0 and undefined both become NULL
OrNull(x) == IF x = 0 THEN NULL ELSE x

\* ------------------------------------------------------------ messages
\* An error message is the sequence of the parts a template literal joins
\* (fixed text and interpolated values); <<>> is the empty message, which
\* `errorMessage || null` stores as SQL NULL.
NoMessage == <<>>

\* the message of an error thrown by a store call
StorageError == <<"storage error">>

\* the message Postgres gives for a violation of unique_job_frame
DuplicateKey == <<"duplicate key value violates unique constraint">>

\* the message of an error thrown by mkdir
MkdirFailed == <<"mkdir failed">>

\* message.includes(part)
includes(message, part) == \E k \in DOMAIN message : message[k] = part

\* ------------------------------------------------------------- job store
\* INSERT INTO processing_jobs (dataset_id, status, progress) VALUES (d, 'pending', 0)
createJob(datasetId) ==
    [dataset_id |-> datasetId, status |-> "pending", progress |-> 0,
     current_step |-> "", error_message |-> NoMessage,
     started_at |-> NULL, completed_at |-> NULL]

\* updateJobStatus with `started_at = ${startedAt}`: no COALESCE on started_at
updateJobStatus_startedAtOverwritten(job, status, progress, currentStep, errorMessage, t) ==
    LET startedAt == IF status = "processing" THEN t ELSE NULL
        completedAt == IF status \in {"completed", "failed"} THEN t ELSE NULL
    IN  [job EXCEPT !.status = status, !.progress = COALESCE(progress, @),
            !.current_step = COALESCE_TEXT(currentStep, @), !.error_message = errorMessage,
            !.started_at = startedAt, !.completed_at = COALESCE(@, completedAt)]

\* updateJobStatus with `completed_at = ${completedAt}`: no COALESCE on completed_at
updateJobStatus_completedAtOverwritten(job, status, progress, currentStep, errorMessage, t) ==
    LET startedAt == IF status = "processing" THEN t ELSE NULL
        completedAt == IF status \in {"completed", "failed"} THEN t ELSE NULL
    IN  [job EXCEPT !.status = status, !.progress = COALESCE(progress, @),
            !.current_step = COALESCE_TEXT(currentStep, @), !.error_message = errorMessage,
            !.started_at = COALESCE(@, startedAt), !.completed_at = completedAt]

\* updateJobStatus with `progress = ${progress ?? 0}`: an update without a
\* progress argument resets the stored progress
updateJobStatus_progressReset(job, status, progress, currentStep, errorMessage, t) ==
    LET startedAt == IF status = "processing" THEN t ELSE NULL
        completedAt == IF status \in {"completed", "failed"} THEN t ELSE NULL
    IN  [job EXCEPT !.status = status,
            !.progress = IF progress = NULL THEN 0 ELSE progress,
            !.current_step = COALESCE_TEXT(currentStep, @), !.error_message = errorMessage,
            !.started_at = COALESCE(@, startedAt), !.completed_at = COALESCE(@, completedAt)]

\* updateJobStatus with `error_message = COALESCE(${errorMessage || null}, error_message)`
updateJobStatus_errorMessageKept(job, status, progress, currentStep, errorMessage, t) ==
    LET startedAt == IF status = "processing" THEN t ELSE NULL
        completedAt == IF status \in {"completed", "failed"} THEN t ELSE NULL
    IN  [job EXCEPT !.status = status, !.progress = COALESCE(progress, @),
            !.current_step = COALESCE_TEXT(currentStep, @),
            !.error_message = IF errorMessage # NoMessage THEN errorMessage ELSE @,
            !.started_at = COALESCE(@, startedAt), !.completed_at = COALESCE(@, completedAt)]

\* the row after UPDATE processing_jobs SET ... of updateJobStatus; `t` is the
\* value of `new Date()` read by the call
updateJobStatus(job, status, progress, currentStep, errorMessage, t) ==
    LET startedAt == IF status = "processing" THEN t ELSE NULL
        completedAt == IF status \in {"completed", "failed"} THEN t ELSE NULL
    IN  [job EXCEPT
            !.status = status,
            !.progress = COALESCE(progress, @),
            !.current_step = COALESCE_TEXT(currentStep, @),
            !.error_message = errorMessage,
            !.started_at = COALESCE(@, startedAt),
            !.completed_at = COALESCE(@, completedAt)]

\* the row after UPDATE processing_jobs SET progress, current_step of updateJobProgress
updateJobProgress(job, progress, currentStep) ==
    [job EXCEPT !.progress = progress, !.current_step = currentStep]

\* --------------------------------------------------------- dataset registry
\* metadata is kept as the name of its producer; "" is SQL NULL
NoMetadata == ""

\* INSERT INTO datasets (huggingface_id, ...) with only the id given
createDataset(huggingfaceId) ==
    [huggingface_id |-> huggingfaceId, total_frames |-> NULL, metadata |-> NoMetadata]

\* SELECT * FROM datasets WHERE huggingface_id = id: the matching row ids
getDatasetByHuggingfaceId(huggingfaceId) ==
    {d \in DOMAIN datasets : datasets[d].huggingface_id = huggingfaceId}

\* the row after UPDATE datasets SET total_frames, metadata of updateDataset;
\* a `metadata` of NoMetadata stands for an absent updates.metadata
updateDataset(ds, total_frames, metadata) ==
    [ds EXCEPT
        !.total_frames = COALESCE(OrNull(total_frames), @),
        !.metadata = IF metadata # NoMetadata THEN metadata ELSE @]

\* ------------------------------------------------------ frame output store
NoRatio == <<>>

\* the row createCompressedOutput inserts
createCompressedOutput(jobId, frameIndex, originalSize, compressedSize) ==
    LET compressionRatio ==
            IF originalSize # NULL /\ originalSize # 0
               /\ compressedSize # NULL /\ compressedSize # 0
            THEN <<originalSize, compressedSize>>
            ELSE NoRatio
    IN  [job_id |-> jobId, frame_index |-> frameIndex,
         original_size |-> OrNull(originalSize),
         compressed_size |-> OrNull(compressedSize),
         compression_ratio |-> compressionRatio]

\* a table without the constraint: every insert is accepted
unique_job_frame_notEnforced(rows, row) == TRUE

\* CONSTRAINT unique_job_frame UNIQUE(job_id, frame_index): the insert is refused
unique_job_frame(rows, row) ==
    \A k \in DOMAIN rows :
        ~(rows[k].job_id = row.job_id /\ rows[k].frame_index = row.frame_index)

\* WHERE job_id = j: the rows of job j in insertion order
RECURSIVE OutputsOf(_, _)
OutputsOf(rows, j) ==
    IF rows = <<>> THEN <<>>
    ELSE LET rest == OutputsOf(Tail(rows), j)
         IN  IF Head(rows).job_id = j THEN <<Head(rows)>> \o rest ELSE rest

\* ------------------------------------------------------- dataset provider
validExtensions ==
    {".jpg", ".jpeg", ".png", ".gif", ".bmp", ".webp",
     ".mp4", ".avi", ".mov", ".mkv", ".webm"}

\* the extensions a repository listing is drawn from
Extensions == {".jpg", ".json"}

Listings == UNION {[1..n -> Extensions] : n \in 0..MaxFiles}

\* the `for await (const file of fileList)` loop: `fileCount` files have been
\* read, `mediaFiles` holds the positions of the media files kept so far
RECURSIVE enumerateFiles(_, _, _, _)
enumerateFiles(listing, fileCount, mediaFiles, limit) ==
    IF fileCount = Len(listing) THEN mediaFiles
    ELSE LET n == fileCount + 1
             kept == IF listing[n] \in validExtensions
                     THEN Append(mediaFiles, n) ELSE mediaFiles
         IN  IF Len(kept) >= limit THEN kept
             ELSE IF n >= SafetyLimit THEN kept
             ELSE enumerateFiles(listing, n, kept, limit)

\* the download loop: frame i is kept iff its download and write succeeded
RECURSIVE downloadLoop(_, _, _)
downloadLoop(mediaFiles, i, downloaded) ==
    IF i >= Len(mediaFiles) THEN <<>>
    ELSE (IF i \in downloaded THEN <<i>> ELSE <<>>)
         \o downloadLoop(mediaFiles, i + 1, downloaded)

\* the value downloadDatasetFrames resolves to; a frame is its `index`
downloadDatasetFrames(listing, limit, downloaded) ==
    LET mediaFiles == enumerateFiles(listing, 0, <<>>, limit)
        frames == IF Len(mediaFiles) = 0 THEN <<>>
                  ELSE downloadLoop(mediaFiles, 0, downloaded)
    IN  [frames |-> frames,
         totalFrames |-> Len(frames),
         metadata |-> "huggingface"]

\* the messages of the errors the hub client raises
ProviderMessages == {<<"Unavailable">>}

\* the message of the error withTimeout rejects with
timedOut(operationName, timeoutMs) ==
    <<"Operation \"", operationName, "\" timed out after ", timeoutMs, "ms">>

\* `Cannot access HuggingFace dataset "${id}". Error: ${listError.message}. ...`
listFailure(message) ==
    <<"Cannot access HuggingFace dataset. Error: ">> \o message
        \o <<". Make sure the dataset exists and is public, or provide HUGGINGFACE_TOKEN in environment variables.">>

\* `Failed to list files in repository: ${iteratorError.message}`
enumerationFailure(message) ==
    <<"Failed to list files in repository: ">> \o message

\* the outer catch with a fixed text in place of error.message
downloadFailure_messageDropped(message) ==
    <<"Failed to download HuggingFace dataset.">>

\* the outer catch: `Failed to download HuggingFace dataset "${id}". Error: ${error.message}. ...`
downloadFailure(message) ==
    <<"Failed to download HuggingFace dataset. Error: ">> \o message
        \o <<". Make sure the dataset exists and is public, or provide HUGGINGFACE_TOKEN.">>

\* the messages of the errors downloadDatasetFrames throws: listFiles raised,
\* or the enumeration raised or ran past its 20 s timeout
downloadDatasetFramesErrors ==
    {downloadFailure(listFailure(m)) : m \in ProviderMessages}
    \cup {downloadFailure(enumerationFailure(m)) :
             m \in ProviderMessages
                   \cup {timedOut("HuggingFace file enumeration", "20000")}}

\* the placeholder downloadDatasetFrames of lib/processor.ts: never any frame
stubDownloadDatasetFrames ==
    [frames |-> <<>>, totalFrames |-> 0,
     metadata |-> "placeholder"]

\* -------------------------------------------------------- mock compression
\* The sizes are Math.random() draws, always positive; one draw stands for all.
\* processJobInBackground: originalSize = 100000 + floor(random * 100000),
\* compressedSize = floor(originalSize / ratio) with ratio in 8..12
mockCompression ==
    {[originalSize |-> 100000, compressedSize |-> 100000 \div 8]}

\* runCompressionAlgorithm: one result per frame path, frame_index = position,
\* original_size = 100000 + floor(random * 50000),
\* compressed_size = 10000 + floor(random * 5000)
runCompressionAlgorithm ==
    {[originalSize |-> 100000, compressedSize |-> 10000]}

\* ---------------------------------------------------------------- runners
\* the background invocations of a run, numbered in the order the handlers
\* start them
Invocations == {1, 2}

\* an invocation that has not been started yet
Idle ==
    [job |-> 0, kind |-> "", pc |-> "idle", frames |-> <<>>, i |-> 0,
     err |-> NoMessage, seen |-> ""]

\* an invocation that has settled: its promise resolved ("done") or rejected
\* ("rejected"), its locals gone
Settled(runner, pc) == [Idle EXCEPT !.pc = pc, !.job = runner.job, !.kind = runner.kind]

\* r is the next invocation to be started
Free(r) ==
    /\ runners[r].pc = "idle"
    /\ \A q \in Invocations : q < r => runners[q].pc # "idle"

Live(r) == runners[r].pc \notin {"idle", "done", "rejected"}

\* a background invocation at its first statement; `seen` is the status of the
\* job row the handler that started it holds (`job`)
NewRunner(j, kind, seen) ==
    [job |-> j, kind |-> kind, pc |-> "start", frames |-> <<>>, i |-> 0,
     err |-> NoMessage, seen |-> seen]

Goto(r, pc) ==
    IF pc \in {"done", "rejected"}
    THEN [runners EXCEPT ![r] = Settled(@, pc)]
    ELSE [runners EXCEPT ![r].pc = pc]

Throw(r, message) == [runners EXCEPT ![r].pc = "catch", ![r].err = message]

At(r, kind, pc) == runners[r].kind = kind /\ runners[r].pc = pc

\* await updateJobStatus(...) inside the try block
AwaitUpdateJobStatus(r, status, progress, currentStep, errorMessage, next) ==
    /\ now' = now + 1
    /\ \/ /\ jobs' = [jobs EXCEPT ![runners[r].job] =
                        updateJobStatus(@, status, progress, currentStep, errorMessage, now)]
          /\ runners' = Goto(r, next)
       \/ /\ UNCHANGED jobs
          /\ runners' = Throw(r, StorageError)
    /\ UNCHANGED <<client, datasets, outputs>>

\* await updateJobProgress(...) inside the try block
AwaitUpdateJobProgress(r, progress, currentStep, next) ==
    /\ \/ /\ jobs' = [jobs EXCEPT ![runners[r].job] =
                        updateJobProgress(@, progress, currentStep)]
          /\ runners' = Goto(r, next)
       \/ /\ UNCHANGED jobs
          /\ runners' = Throw(r, StorageError)
    /\ UNCHANGED <<client, datasets, outputs, now>>

\* await updateDataset(datasetId, {total_frames, metadata}) inside the try block
AwaitUpdateDataset(r, total_frames, metadata, next) ==
    /\ \/ /\ datasets' = [datasets EXCEPT ![jobs[runners[r].job].dataset_id] =
                            updateDataset(@, total_frames, metadata)]
          /\ runners' = Goto(r, next)
       \/ /\ UNCHANGED datasets
          /\ runners' = Throw(r, StorageError)
    /\ UNCHANGED <<client, jobs, outputs, now>>

\* the frame loop with a try/catch around createCompressedOutput that skips
\* the frame whose insert failed
AwaitCreateCompressedOutput_skipsFailedFrame(r, frameIndex, sizes, runner) ==
    LET row == createCompressedOutput(runners[r].job, frameIndex,
                                      sizes.originalSize, sizes.compressedSize)
    IN  /\ \/ /\ unique_job_frame(outputs, row)
              /\ outputs' = Append(outputs, row)
           \/ UNCHANGED outputs
        /\ runners' = [runners EXCEPT ![r] = runner]
        /\ UNCHANGED <<client, datasets, jobs, now>>

\* await createCompressedOutput(...) inside the try block; `runner` is the
\* runner's state after a successful insert
AwaitCreateCompressedOutput(r, frameIndex, sizes, runner) ==
    LET row == createCompressedOutput(runners[r].job, frameIndex,
                                      sizes.originalSize, sizes.compressedSize)
    IN  /\ \/ /\ unique_job_frame(outputs, row)
              /\ outputs' = Append(outputs, row)
              /\ runners' = [runners EXCEPT ![r] = runner]
           \/ /\ ~unique_job_frame(outputs, row)
              /\ UNCHANGED outputs
              /\ runners' = Throw(r, DuplicateKey)
           \/ /\ UNCHANGED outputs
              /\ runners' = Throw(r, StorageError)
        /\ UNCHANGED <<client, datasets, jobs, now>>

\* the catch block: updateJobStatus(jobId, 'failed', undefined, undefined, message);
\* when that call throws too, the runner's promise rejects
Catch(r) ==
    /\ runners[r].pc = "catch"
    /\ now' = now + 1
    /\ \/ /\ jobs' = [jobs EXCEPT ![runners[r].job] =
                        updateJobStatus(@, "failed", NULL, "", runners[r].err, now)]
          /\ runners' = Goto(r, "done")
       \/ /\ UNCHANGED jobs
          /\ runners' = Goto(r, "rejected")
    /\ UNCHANGED <<client, datasets, outputs>>

\* ------------------------------------------------ POST /api/datasets
\* external ids as character sequences: "a/d", "ad" and the missing id
ExternalIds ==
    {<<"a", "/", "d">>, <<"a", "d">>, <<>>}

\* huggingface_id.includes('/')
includesSlash(id) == \E k \in DOMAIN id : id[k] = "/"

\* the two 400 answers of the handler: `!huggingface_id`, `!includes('/')`
SubmitRejected(id) ==
    /\ id = <<>> \/ ~includesSlash(id)
    /\ UNCHANGED vars

\* lookup, createDataset when absent, createJob: the tables after an accepted POST
SubmitTables(id) ==
    LET found == getDatasetByHuggingfaceId(id)
        dataset_id == IF found = {} THEN Len(datasets) + 1
                      ELSE CHOOSE d \in found : TRUE
    IN  /\ id # <<>>
        /\ includesSlash(id)
        /\ Len(jobs) < MaxJobs
        /\ datasets' = IF found = {} THEN Append(datasets, createDataset(id))
                       ELSE datasets
        /\ jobs' = Append(jobs, createJob(dataset_id))

\* api/datasets/index.ts: the handler that also starts processDataset
SubmitAndProcess(id, r) ==
    /\ Free(r)
    /\ SubmitTables(id)
    /\ runners' = [runners EXCEPT
                      ![r] = NewRunner(Len(jobs) + 1, "processDataset", "pending")]
    /\ UNCHANGED <<client, outputs, now>>

\* the handler that only creates the job and leaves the start to the trigger
SubmitOnly(id) ==
    /\ SubmitTables(id)
    /\ UNCHANGED <<client, outputs, runners, now>>

\* ------------------------------------------------ POST /api/process/:jobId
\* getJobById finds the job: 202, and processJobInBackground is started
Trigger(jobId, r) ==
    /\ jobId \in DOMAIN jobs
    /\ Free(r)
    /\ runners' = [runners EXCEPT
                      ![r] = NewRunner(jobId, "processJobInBackground",
                                       jobs[jobId].status)]
    /\ UNCHANGED <<client, datasets, jobs, outputs, now>>

\* getJobById finds nothing: 404
TriggerNotFound(jobId) ==
    /\ jobId \notin DOMAIN jobs
    /\ UNCHANGED vars

\* ------------------------------------------------ processJobInBackground
P == "processJobInBackground"

processJobInBackground_start(r) ==
    /\ At(r, P, "start")
    /\ AwaitUpdateJobStatus(r, "processing", 10,
                            "Downloading dataset from HuggingFace", NoMessage, "mkdir")

processJobInBackground_mkdir(r) ==
    /\ At(r, P, "mkdir")
    /\ runners' \in {Goto(r, "download"), Throw(r, MkdirFailed)}
    /\ UNCHANGED <<client, datasets, jobs, outputs, now>>

processJobInBackground_download(r) ==
    /\ At(r, P, "download")
    /\ \/ \E listing \in Listings, downloaded \in SUBSET (0..(MaxFiles - 1)) :
            runners' = [runners EXCEPT
                ![r].frames = downloadDatasetFrames(listing, maxFrames, downloaded).frames,
                ![r].pc = "updateDataset"]
       \/ \E message \in downloadDatasetFramesErrors : runners' = Throw(r, message)
    /\ UNCHANGED <<client, datasets, jobs, outputs, now>>

\* updateDataset with {total_frames: dataset.totalFrames, metadata}; then the
\* test `dataset.frames.length === 0`
processJobInBackground_updateDataset(r) ==
    /\ At(r, P, "updateDataset")
    /\ AwaitUpdateDataset(r, Len(runners[r].frames),
                            "huggingface",
                            IF Len(runners[r].frames) = 0 THEN "noFrames"
                            ELSE "progress30")

\* 'No image/video files found in HuggingFace dataset'
NoFramesMessage == <<"No image/video files found in HuggingFace dataset">>

processJobInBackground_noFrames(r) ==
    /\ At(r, P, "noFrames")
    /\ AwaitUpdateJobStatus(r, "failed", NULL, "",
                            NoFramesMessage, "done")

processJobInBackground_progress30(r) ==
    /\ At(r, P, "progress30")
    /\ AwaitUpdateJobProgress(r, 30, "Compressing frames", "frameProgress")

\* progress = 30 + Math.floor(((i + 1) / frames.length) * 60): the frame of
\* the current iteration counted as done
frameProgress_countsCurrentFrame(i, n) == 30 + (((i + 1) * 60) \div n)

\* progress = 30 + Math.floor((i / frames.length) * 60)
frameProgress(i, n) == 30 + ((i * 60) \div n)

processJobInBackground_frameProgress(r) ==
    /\ At(r, P, "frameProgress")
    /\ AwaitUpdateJobProgress(r, frameProgress(runners[r].i, Len(runners[r].frames)),
                              "Processing frame", "frameOutput")

\* createCompressedOutput(jobId, i, ...): the loop counter in place of frame.index
frameIndexArgument_loopCounter(frames, i) == i

\* the frame_index argument of createCompressedOutput in the frame loop
frameIndexArgument(frames, i) == frames[i + 1]

\* createCompressedOutput(jobId, frame.index, ...); i++; loop test
processJobInBackground_frameOutput(r) ==
    /\ At(r, P, "frameOutput")
    /\ \E sizes \in mockCompression :
         AwaitCreateCompressedOutput(r,
             frameIndexArgument(runners[r].frames, runners[r].i), sizes,
             [runners[r] EXCEPT
                 !.i = @ + 1,
                 !.pc = IF runners[r].i + 1 < Len(runners[r].frames)
                        THEN "frameProgress" ELSE "complete"])

processJobInBackground_complete(r) ==
    /\ At(r, P, "complete")
    /\ AwaitUpdateJobStatus(r, "completed", 100, "Successfully compressed frames",
                            NoMessage, "done")

\* ------------------------------------------------ processDataset (lib/processor.ts)
D == "processDataset"

processDataset_start(r) ==
    /\ At(r, D, "start")
    /\ AwaitUpdateJobStatus(r, "processing", 0, "Initializing (stub mode)", NoMessage, "mkdir")

processDataset_mkdir(r) ==
    /\ At(r, D, "mkdir")
    /\ runners' \in {Goto(r, "progress10"), Throw(r, MkdirFailed)}
    /\ UNCHANGED <<client, datasets, jobs, outputs, now>>

\* updateJobProgress(jobId, 10, ...), then the placeholder download
processDataset_progress10(r) ==
    /\ At(r, D, "progress10")
    /\ AwaitUpdateJobProgress(r, 10, "Downloading dataset from HuggingFace (stub)",
                              "updateDataset")

processDataset_updateDataset(r) ==
    /\ At(r, D, "updateDataset")
    /\ Len(stubDownloadDatasetFrames.frames) = 0
    /\ AwaitUpdateDataset(r, stubDownloadDatasetFrames.totalFrames,
                          stubDownloadDatasetFrames.metadata, "progress30")

\* updateJobProgress(jobId, 30, ...), then runCompressionAlgorithm on the mock paths
processDataset_progress30(r) ==
    /\ At(r, D, "progress30")
    /\ AwaitUpdateJobProgress(r, 30, "Running Gaussian splatting compression (stub)",
                              "progress70")

processDataset_progress70(r) ==
    /\ At(r, D, "progress70")
    /\ AwaitUpdateJobProgress(r, 70, "Saving compressed outputs", "output")

\* for (const frameResult of compressionResult.results) createCompressedOutput(...)
processDataset_output(r) ==
    /\ At(r, D, "output")
    /\ \E sizes \in runCompressionAlgorithm :
         AwaitCreateCompressedOutput(r, runners[r].i, sizes,
             [runners[r] EXCEPT
                 !.i = @ + 1,
                 !.pc = IF runners[r].i + 1 < MockFrameCount
                        THEN "output" ELSE "updateDataset2"])

\* updateDataset(datasetId, {total_frames: mockFramePaths.length})
processDataset_updateDataset2(r) ==
    /\ At(r, D, "updateDataset2")
    /\ AwaitUpdateDataset(r, MockFrameCount, NoMetadata, "complete")

processDataset_complete(r) ==
    /\ At(r, D, "complete")
    /\ AwaitUpdateJobStatus(r, "completed", 100, "Compression completed (stub mode)",
                            NoMessage, "done")

\* ------------------------------------------------------- result reader
\* ORDER BY frame_index ASC
RECURSIVE insertByFrameIndex(_, _)
insertByFrameIndex(row, sorted) ==
    IF sorted = <<>> THEN <<row>>
    ELSE IF row.frame_index <= Head(sorted).frame_index THEN <<row>> \o sorted
    ELSE <<Head(sorted)>> \o insertByFrameIndex(row, Tail(sorted))

RECURSIVE orderByFrameIndex(_)
orderByFrameIndex(rows) ==
    IF rows = <<>> THEN <<>>
    ELSE insertByFrameIndex(Head(rows), orderByFrameIndex(Tail(rows)))

\* SELECT * FROM compressed_outputs WHERE job_id = ${jobId} ORDER BY frame_index ASC
getOutputsByJobId(rows, jobId) == orderByFrameIndex(OutputsOf(rows, jobId))

\* SQL SUM(column): NULL values are skipped, no value at all gives NULL
RECURSIVE SUM(_, _)
SUM(rows, column) ==
    IF rows = <<>> THEN NULL
    ELSE LET rest == SUM(Tail(rows), column)
             v == Head(rows)[column]
         IN  IF v = NULL THEN rest ELSE IF rest = NULL THEN v ELSE v + rest

\* the rows whose compression_ratio is not NULL
RECURSIVE WithRatio(_)
WithRatio(rows) ==
    IF rows = <<>> THEN <<>>
    ELSE (IF Head(rows).compression_ratio = NoRatio THEN <<>> ELSE <<Head(rows)>>)
         \o WithRatio(Tail(rows))

RECURSIVE GCD(_, _)
GCD(a, b) == IF b = 0 THEN a ELSE GCD(b, a % b)

\* a fraction <<numerator, denominator>> in lowest terms
Reduced(q) == LET g == GCD(q[1], q[2]) IN <<q[1] \div g, q[2] \div g>>

\* the sum of the ratios of `rows` as a fraction <<numerator, denominator>>
RECURSIVE SumOfRatios(_)
SumOfRatios(rows) ==
    IF rows = <<>> THEN <<0, 1>>
    ELSE LET r == Reduced(Head(rows).compression_ratio)
             rest == SumOfRatios(Tail(rows))
         IN  Reduced(<<r[1] * rest[2] + rest[1] * r[2], r[2] * rest[2]>>)

\* an average that divides by the number of all rows
AVG_countsEveryRow(rows) ==
    LET total == SumOfRatios(WithRatio(rows))
    IN  IF rows = <<>> THEN NoRatio ELSE <<total[1], total[2] * Len(rows)>>

\* SQL AVG(compression_ratio): the mean of the non-NULL values as a fraction,
\* NULL when there is none
AVG(rows) ==
    LET valued == WithRatio(rows)
        total == SumOfRatios(valued)
    IN  IF valued = <<>> THEN NoRatio ELSE <<total[1], total[2] * Len(valued)>>

\* SELECT COUNT(*), SUM(original_size), SUM(compressed_size),
\* AVG(compression_ratio) FROM compressed_outputs WHERE job_id = ${jobId}
getCompressionStats(rows, jobId) ==
    LET mine == OutputsOf(rows, jobId)
    IN  [total_frames |-> Len(mine),
         total_original_size |-> SUM(mine, "original_size"),
         total_compressed_size |-> SUM(mine, "compressed_size"),
         avg_compression_ratio |-> AVG(mine)]

\* GET outputs of a job: 200 with {jobId, outputs, stats}
outputsResponse(jobId) ==
    [status |-> 200,
     outputs |-> getOutputsByJobId(outputs, jobId),
     stats |-> getCompressionStats(outputs, jobId)]

\* GET /api/outputs/:jobId/download
downloadResponse(jobId) ==
    IF jobId \notin DOMAIN jobs
    THEN [status |-> 404, error |-> "Job not found"]
    ELSE IF jobs[jobId].status # "completed"
    THEN [status |-> 400, error |-> "Job not completed"]
    ELSE IF Len(getOutputsByJobId(outputs, jobId)) = 0
    THEN [status |-> 404, error |-> "No compressed outputs found"]
    ELSE [status |-> 200,
          outputs |-> getOutputsByJobId(outputs, jobId),
          stats |-> getCompressionStats(outputs, jobId)]

\* the two read handlers change nothing
GetOutputs(jobId) ==
    /\ outputsResponse(jobId).status = 200
    /\ UNCHANGED vars

Download(jobId) ==
    /\ downloadResponse(jobId).status \in {200, 400, 404}
    /\ UNCHANGED vars

\* ------------------------------------------------- JobStatus component
\* useState<Job | null>(null)
NoJob == [id |-> NULL, status |-> ""]

\* a request whose response has not been produced yet
NoResponse == [id |-> NULL, status |-> ""]

\* no page with the component is open
NoClient == [jobId |-> NULL, job |-> NoJob, sent |-> 0, fetches |-> {}]

\* fetch(`/api/jobs/${jobId}`) is sent: the n-th request of the component
fetchJobStatus(c) ==
    [c EXCEPT !.sent = @ + 1,
              !.fetches = @ \cup {[n |-> c.sent + 1, jobId |-> c.jobId,
                                   response |-> NoResponse]}]

\* ------------------------------------------------------------ specification
Init ==
    /\ datasets = <<>>
    /\ jobs = <<>>
    /\ outputs = <<>>
    /\ runners = [r \in Invocations |-> Idle]
    /\ now = 1
    /\ client = NoClient

Next ==
    \/ \E id \in ExternalIds : SubmitRejected(id)
    \/ \E id \in ExternalIds, r \in Invocations : SubmitAndProcess(id, r)
    \/ \E id \in ExternalIds : SubmitOnly(id)
    \/ \E jobId \in 1..MaxJobs, r \in Invocations : Trigger(jobId, r)
    \/ \E jobId \in 1..(MaxJobs + 1) : TriggerNotFound(jobId)
    \/ \E jobId \in 1..(MaxJobs + 1) : GetOutputs(jobId)
    \/ \E jobId \in 1..(MaxJobs + 1) : Download(jobId)
    \/ \E r \in Invocations : processJobInBackground_start(r)
    \/ \E r \in Invocations : processJobInBackground_mkdir(r)
    \/ \E r \in Invocations : processJobInBackground_download(r)
    \/ \E r \in Invocations : processJobInBackground_updateDataset(r)
    \/ \E r \in Invocations : processJobInBackground_noFrames(r)
    \/ \E r \in Invocations : processJobInBackground_progress30(r)
    \/ \E r \in Invocations : processJobInBackground_frameProgress(r)
    \/ \E r \in Invocations : processJobInBackground_frameOutput(r)
    \/ \E r \in Invocations : processJobInBackground_complete(r)
    \/ \E r \in Invocations : processDataset_start(r)
    \/ \E r \in Invocations : processDataset_mkdir(r)
    \/ \E r \in Invocations : processDataset_progress10(r)
    \/ \E r \in Invocations : processDataset_updateDataset(r)
    \/ \E r \in Invocations : processDataset_progress30(r)
    \/ \E r \in Invocations : processDataset_progress70(r)
    \/ \E r \in Invocations : processDataset_output(r)
    \/ \E r \in Invocations : processDataset_updateDataset2(r)
    \/ \E r \in Invocations : processDataset_complete(r)
    \/ \E r \in Invocations : Catch(r)

Spec == Init /\ [][Next]_vars

\* ------------------------------------------------------------------ claims
\* the frame_index values of the rows of job j, in insertion order
FrameIndexes(j) ==
    LET rows == OutputsOf(outputs, j) IN [k \in DOMAIN rows |-> rows[k].frame_index]

\* invocation r is between its first and its last frame-output write
InFrameLoop(r) == runners[r].pc \in {"frameProgress", "frameOutput"}

\* the step commits the UPDATE ... status = 'failed' of invocation r
FailedWriteCommits(r) ==
    /\ runners[r].pc \in {"catch", "noFrames"}
    /\ runners'[r].pc = "done"

\* C1: once a job's status is completed or failed, no later operation changes
\* its status.
C1_TerminalStatusIsFinal ==
    [][\A j \in DOMAIN jobs :
          jobs[j].status \in Terminal => jobs'[j].status = jobs[j].status]_vars

\* the edges pending -> processing -> {completed, failed}
LifecycleEdge(a, b) ==
    \/ a = b
    \/ a = "pending" /\ b = "processing"
    \/ a = "processing" /\ b \in Terminal

\* C2: a job's status changes only along pending -> processing ->
\* {completed, failed}; no job goes from pending directly to completed or
\* failed, whatever step of the run fails.
C2_OnlyLifecycleEdges ==
    [][\A j \in DOMAIN jobs : LifecycleEdge(jobs[j].status, jobs'[j].status)]_vars

\* C3: a second invocation of processJobInBackground on a job that the first
\* invocation left completed, meeting no fault of its own (it resolves frames
\* and stops only where the first invocation's rows already exist), leaves the
\* job completed when it settles.
C3_RerunKeepsTerminalState ==
    [][\A r \in Invocations : \A q \in Invocations \ {r} :
          (/\ runners[r].kind = P /\ runners[q].kind = P
           /\ runners[q].job = runners[r].job /\ runners[q].pc = "done"
           /\ runners[r].seen = "completed"
           /\ runners[r].pc = "catch"
           /\ runners[r].err = DuplicateKey
           /\ runners'[r].pc = "done")
          => jobs'[runners[r].job].status = "completed"]_vars

\* C4: when the trigger is invoked twice for the same job, at most one of
\* the two invocations of processJobInBackground performs frame work.
C4_NoDoubleProcessing ==
    \A r \in Invocations : \A q \in Invocations \ {r} :
        (/\ runners[r].kind = P /\ runners[q].kind = P
         /\ runners[r].job = runners[q].job)
        => ~(InFrameLoop(r) /\ InFrameLoop(q))

\* C5: started_at is null in a new job and until the first status update to
\* processing, is set by that update to the time the update read, and is
\* never changed by any later update of the job.
C5_StartedAtFirstWriteWins ==
    [][/\ \A j \in DOMAIN jobs' \ DOMAIN jobs : jobs'[j].started_at = NULL
       /\ \A j \in DOMAIN jobs :
            LET a == jobs[j].started_at
                b == jobs'[j].started_at
            IN  /\ a # NULL => b = a
                /\ (a = NULL /\ b # NULL) =>
                       /\ jobs'[j].status = "processing"
                       /\ b = now
                /\ (a = NULL /\ jobs[j].status # "processing"
                             /\ jobs'[j].status = "processing") => b # NULL]_vars

\* a repeated processing update has acted on a job that had started and
\* finished before, and started_at still holds the first start
C5_Witness ==
    \E j \in DOMAIN jobs :
        /\ jobs[j].status = "processing"
        /\ jobs[j].completed_at # NULL
        /\ jobs[j].started_at # NULL
        /\ jobs[j].started_at < jobs[j].completed_at

\* C6: completed_at is null while the job has never been completed or
\* failed, is set by the first status update to completed or failed to the
\* time the update read, and is never changed by any later update of the job.
C6_CompletedAtFirstWriteWins ==
    [][/\ \A j \in DOMAIN jobs' \ DOMAIN jobs : jobs'[j].completed_at = NULL
       /\ \A j \in DOMAIN jobs :
            LET a == jobs[j].completed_at
                b == jobs'[j].completed_at
            IN  /\ a # NULL => b = a
                /\ (a = NULL /\ b # NULL) =>
                       /\ jobs'[j].status \in Terminal
                       /\ b = now
                /\ (a = NULL /\ jobs[j].status \notin Terminal
                             /\ jobs'[j].status \in Terminal) => b # NULL]_vars

\* two terminal updates have acted on the job (both invocations recorded
\* their outcome, the later one a failure) and completed_at is older than the
\* later one
C6_Witness ==
    \E j \in DOMAIN jobs :
        /\ \A r \in Invocations : runners[r].job = j /\ runners[r].pc = "done"
        /\ jobs[j].status = "failed"
        /\ jobs[j].completed_at # NULL
        /\ jobs[j].completed_at + 1 < now

\* C7: in every reachable state, a job whose status is completed has
\* progress exactly 100.
C7_CompletedHasProgress100 ==
    \A j \in DOMAIN jobs : jobs[j].status = "completed" => jobs[j].progress = 100

\* C8: while a job is pending or processing, no write lowers its progress.
C8_ProgressNeverDecreases ==
    [][\A j \in DOMAIN jobs :
          (/\ jobs[j].status \in {"pending", "processing"}
           /\ jobs'[j].status \in {"pending", "processing"})
          => jobs'[j].progress >= jobs[j].progress]_vars

\* C9: the write that records a job as failed changes only status,
\* error_message and completed_at of that job: progress, current_step and
\* started_at keep their values, completed_at keeps a value it already has,
\* no other job or dataset changes, and every frame output stays.
C9_FailedWriteFrame ==
    [][\A r \in Invocations :
          FailedWriteCommits(r) =>
              LET j == runners[r].job
              IN  /\ jobs'[j].status = "failed"
                  /\ jobs'[j].progress = jobs[j].progress
                  /\ jobs'[j].current_step = jobs[j].current_step
                  /\ jobs'[j].started_at = jobs[j].started_at
                  /\ jobs'[j].dataset_id = jobs[j].dataset_id
                  /\ jobs[j].completed_at # NULL =>
                         jobs'[j].completed_at = jobs[j].completed_at
                  /\ \A k \in DOMAIN jobs \ {j} : jobs'[k] = jobs[k]
                  /\ outputs' = outputs
                  /\ datasets' = datasets]_vars

\* a job recorded as failed after frame outputs were written: the rows are
\* there and progress is a frame-loop value
C9_Witness ==
    \E j \in DOMAIN jobs :
        /\ jobs[j].status = "failed"
        /\ jobs[j].progress > 30
        /\ jobs[j].progress < 100
        /\ Len(OutputsOf(outputs, j)) >= 1

\* C10: when the only invocation for a job resolved N >= 1 frames and every
\* step up to the last status write succeeded, that write leaves the job
\* completed with exactly N frame outputs, whose frame_index values are the
\* resolved frames' indices in the order of the frames.
C10_OutputsMatchFrames ==
    [][\A r \in Invocations :
          (/\ runners[r].pc = "complete"
           /\ runners'[r].pc = "done"
           /\ Len(runners[r].frames) >= 1
           /\ \A q \in Invocations \ {r} : runners[q].job # runners[r].job)
          => /\ jobs'[runners[r].job].status = "completed"
             /\ jobs'[runners[r].job].progress = 100
             /\ Len(OutputsOf(outputs', runners[r].job)) = Len(runners[r].frames)
             /\ [k \in DOMAIN runners[r].frames |->
                    OutputsOf(outputs', runners[r].job)[k].frame_index]
                = runners[r].frames]_vars

\* a job completed by its only invocation, whose last resolved frame has an
\* index different from its position (an earlier file failed to download)
C10_Witness ==
    \E j \in DOMAIN jobs :
        /\ jobs[j].status = "completed"
        /\ \E r \in Invocations :
             /\ runners[r].job = j /\ runners[r].pc = "done" /\ runners[r].kind = P
             /\ \A q \in Invocations \ {r} : runners[q].job # j
        /\ Len(FrameIndexes(j)) >= 1
        /\ FrameIndexes(j)[Len(FrameIndexes(j))] # Len(FrameIndexes(j)) - 1

\* invocation r has resolved an empty frame set and has not settled
ResolvedEmpty(r) ==
    \/ /\ runners[r].kind = P
       /\ runners[r].pc \in {"updateDataset", "noFrames"}
       /\ runners[r].frames = <<>>
    \/ /\ runners[r].kind = D
       /\ stubDownloadDatasetFrames.frames = <<>>
       /\ runners[r].pc \in {"updateDataset", "progress30", "progress70", "output",
                             "updateDataset2", "complete"}

\* invocation r is the only one started for its job
OnlyInvocation(r) ==
    \A q \in Invocations \ {r} : runners[q].job # runners[r].job

\* C11: a run whose frame resolution returned no frame writes no frame
\* output and never records completed; when it returns it has recorded failed
\* with the no-frames message, and a job with no other run has zero outputs.
C11_NoFramesFails ==
    [][\A r \in Invocations :
          (ResolvedEmpty(r) /\ runners'[r] # runners[r]) =>
              LET j == runners[r].job
              IN  /\ OutputsOf(outputs', j) = OutputsOf(outputs, j)
                  /\ jobs'[j].status = "completed" => jobs[j].status = "completed"
                  /\ runners'[r].pc = "done" =>
                         /\ jobs'[j].status = "failed"
                         /\ jobs'[j].error_message = NoFramesMessage
                  /\ OnlyInvocation(r) => OutputsOf(outputs', j) = <<>>]_vars

\* the messages of the errors the provider call can end with: what the hub
\* client raised, or the enumeration timeout
RaisedMessages ==
    ProviderMessages \cup {timedOut("HuggingFace file enumeration", "20000")}

\* the parts of `part` occur in `message`, adjacent and in order
Contains(message, part) ==
    \E k \in 0..(Len(message) - Len(part)) :
        SubSeq(message, k + 1, k + Len(part)) = part

\* invocation r of processJobInBackground is in its catch block with the
\* error downloadDatasetFrames threw
ProviderFailed(r) ==
    /\ runners[r].kind = P
    /\ runners[r].pc = "catch"
    /\ runners[r].err \in downloadDatasetFramesErrors

\* C12: when frame resolution fails with a provider error, the run records
\* failed with an error_message that contains the provider's message; no step
\* of the run up to there writes a frame output or the dataset record, so a
\* job with no other run has no frame output and a dataset no other run
\* touched is as it was created.
C12_ProviderFailure ==
    [][\A r \in Invocations :
          LET j == runners[r].job
          IN  /\ (/\ runners'[r] # runners[r]
                  /\ \/ runners[r].kind = P
                        /\ runners[r].pc \in {"start", "mkdir", "download"}
                     \/ ProviderFailed(r))
                 => datasets' = datasets /\ outputs' = outputs
              /\ (ProviderFailed(r) /\ runners'[r].pc = "done") =>
                    /\ jobs'[j].status = "failed"
                    /\ \E m \in RaisedMessages : Contains(jobs'[j].error_message, m)
                    /\ OnlyInvocation(r) => OutputsOf(outputs', j) = <<>>
                    /\ (\A q \in Invocations \ {r} : runners[q].pc = "idle") =>
                          datasets'[jobs[j].dataset_id]
                            = createDataset(datasets[jobs[j].dataset_id].huggingface_id)]_vars

\* a job recorded as failed by its only run after the hub client raised
\* "Unavailable", with no frame output and its dataset as created
C12_Witness ==
    \E j \in DOMAIN jobs : \E r \in Invocations :
        /\ runners[r].job = j /\ runners[r].kind = P /\ runners[r].pc = "done"
        /\ OnlyInvocation(r)
        /\ jobs[j].status = "failed"
        /\ includes(jobs[j].error_message, "Unavailable")
        /\ OutputsOf(outputs, j) = <<>>
        /\ datasets[jobs[j].dataset_id].total_frames = NULL

\* ------------------------------------------------------------- liveness
\* the statement invocation r is at runs and its awaited call settles
Step(r) ==
    \/ processJobInBackground_start(r)
    \/ processJobInBackground_mkdir(r)
    \/ processJobInBackground_download(r)
    \/ processJobInBackground_updateDataset(r)
    \/ processJobInBackground_noFrames(r)
    \/ processJobInBackground_progress30(r)
    \/ processJobInBackground_frameProgress(r)
    \/ processJobInBackground_frameOutput(r)
    \/ processJobInBackground_complete(r)
    \/ processDataset_start(r)
    \/ processDataset_mkdir(r)
    \/ processDataset_progress10(r)
    \/ processDataset_updateDataset(r)
    \/ processDataset_progress30(r)
    \/ processDataset_progress70(r)
    \/ processDataset_output(r)
    \/ processDataset_updateDataset2(r)
    \/ processDataset_complete(r)
    \/ Catch(r)

\* the call invocation r awaits never settles (a store query, mkdir, or
\* `response.arrayBuffer()` in the provider, none of which is under
\* withTimeout): the invocation stays at its await for ever
Stall(r) ==
    /\ Live(r)
    /\ runners[r].pc # "stalled"
    /\ runners' = [runners EXCEPT ![r].pc = "stalled"]
    /\ UNCHANGED <<client, datasets, jobs, outputs, now>>

NextOrStall == Next \/ \E r \in Invocations : Stall(r)

\* The event loop resumes every invocation whose awaited call has settled.
LiveSpec ==
    Init /\ [][NextOrStall]_vars /\ \A r \in Invocations : WF_vars(Step(r))

\* C13: every job that enters processing eventually reaches completed or
\* failed, also when a call of the run never returns.
C13_EventuallyTerminal ==
    \A j \in 1..MaxJobs :
        (j \in DOMAIN jobs /\ jobs[j].status = "processing")
            ~> (j \in DOMAIN jobs /\ jobs[j].status \in Terminal)

\* C14: no failure escapes a run: an invocation's promise never rejects, and
\* an invocation that met a failure returns with the job recorded as failed
\* with a message.
C14_NoFailureEscapes ==
    [][\A r \in Invocations :
          /\ runners'[r].pc # "rejected"
          /\ (runners[r].pc = "catch" /\ runners'[r].pc \in {"done", "rejected"}) =>
                /\ jobs'[runners[r].job].status = "failed"
                /\ jobs'[runners[r].job].error_message # NoMessage]_vars

\* the frame indices handed to the frame loop of invocation r
FramesHandedTo(r) ==
    IF runners[r].kind = P
    THEN {runners[r].frames[k] : k \in DOMAIN runners[r].frames}
    ELSE 0..(MockFrameCount - 1)

\* job j has a frame output for frame index f
HasOutput(rows, j, f) ==
    \E k \in DOMAIN rows : rows[k].job_id = j /\ rows[k].frame_index = f

\* C15: a job becomes completed only by a run that has a frame output for
\* every frame handed to it, so never with fewer outputs than frames; a run
\* in which a frame's write failed returns with the job recorded as failed.
C15_NoPartialSuccess ==
    [][/\ \A j \in DOMAIN jobs :
            (jobs[j].status # "completed" /\ jobs'[j].status = "completed") =>
                \E r \in Invocations :
                    /\ runners[r].job = j
                    /\ runners[r].pc = "complete" /\ runners'[r].pc = "done"
                    /\ \A f \in FramesHandedTo(r) : HasOutput(outputs', j, f)
                    /\ Len(OutputsOf(outputs', j)) >= Cardinality(FramesHandedTo(r))
       /\ \A r \in Invocations :
            (runners[r].pc \in {"frameOutput", "output"} /\ runners'[r].pc = "catch")
                => /\ jobs'[runners[r].job].status # "completed"
                      \/ jobs[runners[r].job].status = "completed"
                   /\ runners'[r].err \in {StorageError, DuplicateKey}
       /\ \A r \in Invocations :
            (runners[r].pc = "catch" /\ runners'[r].pc = "done")
                => jobs'[runners[r].job].status = "failed"]_vars

\* the only run of a job had two frames, wrote the first one's output, met a
\* failing write for the second, and the job is failed
C15_Witness ==
    \E j \in DOMAIN jobs : \E r \in Invocations :
        /\ runners[r].job = j /\ runners[r].pc = "done" /\ OnlyInvocation(r)
        /\ jobs[j].status = "failed"
        /\ jobs[j].error_message = StorageError
        /\ Len(OutputsOf(outputs, j)) = 1
        /\ jobs[j].progress = frameProgress(1, 2)

MaxRows == 3

StoreJobs == {1, 2}

StoreKeys == ({1} \X (0..2)) \cup {<<2, 0>>}

SizePairs == ({NULL, 0, 100} \X {NULL, 0, 10}) \cup {<<200, 50>>, <<50, 0>>}

StoreInit ==
    /\ datasets = <<createDataset(<<"a", "/", "d">>)>>
    /\ jobs = [j \in StoreJobs |-> createJob(1)]
    /\ outputs = <<>>
    /\ runners = [r \in Invocations |-> Idle]
    /\ now = 1
    /\ client = NoClient

\* INSERT INTO compressed_outputs ... RETURNING *
InsertOutput(jobId, frameIndex, originalSize, compressedSize) ==
    LET row == createCompressedOutput(jobId, frameIndex, originalSize, compressedSize)
    IN  /\ Len(outputs) < MaxRows
        /\ unique_job_frame(outputs, row)
        /\ outputs' = Append(outputs, row)
        /\ UNCHANGED <<client, datasets, jobs, runners, now>>

\* the INSERT violates UNIQUE (job_id, frame_index) and throws
InsertRejected(jobId, frameIndex, originalSize, compressedSize) ==
    LET row == createCompressedOutput(jobId, frameIndex, originalSize, compressedSize)
    IN  /\ ~unique_job_frame(outputs, row)
        /\ UNCHANGED vars

StoreNext ==
    \/ \E key \in StoreKeys, sizes \in SizePairs :
          InsertOutput(key[1], key[2], sizes[1], sizes[2])
    \/ \E key \in StoreKeys, sizes \in SizePairs :
          InsertRejected(key[1], key[2], sizes[1], sizes[2])
    \/ \E jobId \in StoreJobs : GetOutputs(jobId)
    \/ \E jobId \in StoreJobs : Download(jobId)

StoreSpec == StoreInit /\ [][StoreNext]_vars

\* a ratio equals the quotient p / q
RatioIs(ratio, p, q) == ratio # NoRatio /\ ratio[1] * q = p * ratio[2]

\* C17: for sizes that are absent, zero or positive, the stored
\* compression_ratio is present exactly when both sizes are present and the
\* compressed size is greater than zero, and then equals original / compressed.
C17_RatioPresence ==
    [][\A key \in StoreKeys, sizes \in SizePairs :
         InsertOutput(key[1], key[2], sizes[1], sizes[2]) =>
            LET row == outputs'[Len(outputs')]
                both == sizes[1] # NULL /\ sizes[2] # NULL /\ sizes[2] > 0
            IN  /\ (row.compression_ratio # NoRatio) <=> both
                /\ both => RatioIs(row.compression_ratio, sizes[1], sizes[2])]_vars

\* the sum of column `column` over the rows of `rows` at the positions `at`
RECURSIVE TotalOf(_, _, _)
TotalOf(rows, column, at) ==
    IF at = {} THEN 0
    ELSE LET k == CHOOSE x \in at : TRUE
         IN  rows[k][column] + TotalOf(rows, column, at \ {k})

\* the sum of the ratios at the positions `at` is the fraction p / q
RECURSIVE RatiosAddUpTo(_, _, _, _)
RatiosAddUpTo(rows, at, p, q) ==
    IF at = {} THEN p = 0
    ELSE LET k == CHOOSE x \in at : TRUE
             r == rows[k].compression_ratio
         IN  RatiosAddUpTo(rows, at \ {k}, p * r[2] - r[1] * q, q * r[2])

\* the sizes of the claim's example: (100, 10), (200, 50), (50, 0)
IsExample(out) ==
    /\ Len(out) = 3
    /\ {<<out[k].original_size, out[k].compressed_size>> : k \in DOMAIN out}
         = {<<100, 10>>, <<200, 50>>, <<50, NULL>>}

\* C18: the reader returns a job's outputs in ascending frame_index order;
\* total_frames is the number of all outputs of the job, the size totals are
\* the sums of the stored sizes, and avg_compression_ratio is the mean over
\* only the outputs that have a ratio: outputs of sizes (100, 10), (200, 50)
\* and (50, 0) give total_frames 3 and an average of 7.
C18_ReaderStats ==
    \A j \in StoreJobs :
        LET out == getOutputsByJobId(outputs, j)
            stats == getCompressionStats(outputs, j)
            stored == {k \in DOMAIN outputs : outputs[k].job_id = j}
            sized(column) == {k \in DOMAIN out : out[k][column] # NULL}
            valued == {k \in DOMAIN out : out[k].compression_ratio # NoRatio}
            avg == stats.avg_compression_ratio
        IN  /\ \A k \in 1..(Len(out) - 1) : out[k].frame_index <= out[k + 1].frame_index
            /\ Len(out) = Cardinality(stored)
            /\ {out[k] : k \in DOMAIN out} = {outputs[k] : k \in stored}
            /\ stats.total_frames = Len(out)
            /\ \A column \in {"original_size", "compressed_size"} :
                  LET total == stats["total_" \o column]
                  IN  IF sized(column) = {} THEN total = NULL
                      ELSE total = TotalOf(out, column, sized(column))
            /\ IF valued = {} THEN avg = NoRatio
               ELSE /\ avg # NoRatio
                    /\ RatiosAddUpTo(out, valued, avg[1] * Cardinality(valued), avg[2])
            /\ IsExample(out) => stats.total_frames = 3 /\ RatioIs(avg, 7, 1)

\* the example's outputs are stored for job 1, written out of frame order
C18_Witness ==
    /\ IsExample(getOutputsByJobId(outputs, 1))
    /\ \E k \in 1..(Len(outputs) - 1) :
          /\ outputs[k].job_id = 1 /\ outputs[k + 1].job_id = 1
          /\ outputs[k].frame_index > outputs[k + 1].frame_index
    /\ RatioIs(getCompressionStats(outputs, 1).avg_compression_ratio, 7, 1)

\* what a successful, empty result set looks like: no outputs, every statistic
\* zero or null
EmptyResult(response) ==
    /\ response.status = 200
    /\ response.outputs = <<>>
    /\ response.stats.total_frames = 0
    /\ response.stats.total_original_size \in {0, NULL}
    /\ response.stats.total_compressed_size \in {0, NULL}
    /\ response.stats.avg_compression_ratio = NoRatio

\* C19: reading the results of a job that has no outputs returns a
\* successful empty result, through either read handler and whatever the
\* job's status.
C19_EmptyResultIsSuccess ==
    \A j \in DOMAIN jobs :
        OutputsOf(outputs, j) = <<>> =>
            /\ EmptyResult(outputsResponse(j))
            /\ EmptyResult(downloadResponse(j))

\* no two rows for the same job and frame index
OneRowPerFrame(rows) ==
    \A k, l \in DOMAIN rows :
        (rows[k].job_id = rows[l].job_id /\ rows[k].frame_index = rows[l].frame_index)
            => k = l

\* C20: the store never holds two outputs for the same job and frame index;
\* a write for a frame that already has an output is rejected, and no step
\* changes or removes an output that is stored.
C20_OneOutputPerFrame ==
    [][/\ OneRowPerFrame(outputs')
       /\ \A k \in DOMAIN outputs : k \in DOMAIN outputs' /\ outputs'[k] = outputs[k]
       /\ \A r \in Invocations :
             (runners[r].pc # "catch" /\ runners'[r].pc = "catch"
              /\ runners'[r].err = DuplicateKey) => outputs' = outputs]_vars

\* a write was rejected as a duplicate: the invocation is in its catch block
\* with the constraint's error and the job's earlier output is stored
C20_Witness ==
    \E r \in Invocations :
        /\ runners[r].pc = "catch"
        /\ runners[r].err = DuplicateKey
        /\ OutputsOf(outputs, runners[r].job) # <<>>
        /\ OneRowPerFrame(outputs)

\* C21: a frame output is only inserted while its job's status is processing,
\* and no step changes an output that is stored.
C21_OutputsOnlyWhileProcessing ==
    [][/\ \A k \in DOMAIN outputs : k \in DOMAIN outputs' /\ outputs'[k] = outputs[k]
       /\ \A k \in DOMAIN outputs' \ DOMAIN outputs :
             jobs[outputs'[k].job_id].status = "processing"]_vars

\* ------------------------------------- POST /api/datasets, await by await
\* Concurrent submissions: every request is one run of the handler, and each
\* store call it awaits is one step.  The store answers every call.
MaxRequests == 2

Requests == 1..MaxRequests

\* "a/d", "b/d", and the ids without the namespace/name shape: "ad", "/d",
\* "a/" and the missing id
SubmittedIds ==
    {<<"a", "/", "d">>, <<"b", "/", "d">>, <<"a", "d">>, <<"/", "d">>,
     <<"a", "/">>, <<>>}

NoRequest == [pc |-> "idle", id |-> <<>>, dataset |-> NULL, job |-> NULL,
              processing |-> FALSE, response |-> NULL]

SubmitInit ==
    /\ datasets = <<>>
    /\ jobs = <<>>
    /\ outputs = <<>>
    /\ runners = [q \in Requests |-> NoRequest]
    /\ now = 1
    /\ client = NoClient

\* a table without UNIQUE on huggingface_id
datasets_huggingface_id_key_notEnforced(rows, huggingfaceId) == TRUE

\* huggingface_id VARCHAR(255) NOT NULL UNIQUE
datasets_huggingface_id_key(rows, huggingfaceId) ==
    \A d \in DOMAIN rows : rows[d].huggingface_id # huggingfaceId

\* the request arrives; `await ensureDatabase()` returns
Post_receive(q, id) ==
    /\ runners[q].pc = "idle"
    /\ \A p \in Requests : p < q => runners[p].pc # "idle"
    /\ runners' = [runners EXCEPT ![q] = [@ EXCEPT !.pc = "post", !.id = id]]
    /\ UNCHANGED <<client, datasets, jobs, outputs, now>>

\* `!huggingface_id`: 400
Post_missing(q) ==
    /\ runners[q].pc = "post"
    /\ runners[q].id = <<>>
    /\ runners' = [runners EXCEPT ![q] = [@ EXCEPT !.pc = "done", !.response = 400]]
    /\ UNCHANGED <<client, datasets, jobs, outputs, now>>

\* `!huggingface_id.includes('/')`: 400
Post_format(q) ==
    /\ runners[q].pc = "post"
    /\ runners[q].id # <<>>
    /\ ~includesSlash(runners[q].id)
    /\ runners' = [runners EXCEPT ![q] = [@ EXCEPT !.pc = "done", !.response = 400]]
    /\ UNCHANGED <<client, datasets, jobs, outputs, now>>

\* let dataset = await getDatasetByHuggingfaceId(huggingface_id)
Post_lookup(q) ==
    LET found == getDatasetByHuggingfaceId(runners[q].id)
    IN  /\ runners[q].pc = "post"
        /\ runners[q].id # <<>>
        /\ includesSlash(runners[q].id)
        /\ runners' = [runners EXCEPT ![q] =
               IF found = {} THEN [@ EXCEPT !.pc = "createDataset"]
               ELSE [@ EXCEPT !.pc = "createJob",
                              !.dataset = CHOOSE d \in found : TRUE]]
        /\ UNCHANGED <<client, datasets, jobs, outputs, now>>

\* dataset = await createDataset(huggingface_id); a violation of the UNIQUE
\* constraint throws into the handler's catch: 500
Post_createDataset(q) ==
    /\ runners[q].pc = "createDataset"
    /\ IF datasets_huggingface_id_key(datasets, runners[q].id)
       THEN /\ datasets' = Append(datasets, createDataset(runners[q].id))
            /\ runners' = [runners EXCEPT ![q] =
                   [@ EXCEPT !.pc = "createJob", !.dataset = Len(datasets) + 1]]
       ELSE /\ UNCHANGED datasets
            /\ runners' = [runners EXCEPT ![q] =
                   [@ EXCEPT !.pc = "done", !.response = 500]]
    /\ UNCHANGED <<client, jobs, outputs, now>>

\* const job = await createJob(dataset.id); processDataset(job.id, ...) is
\* started without await; 201 with {dataset, job}
Post_createJob(q) ==
    /\ runners[q].pc = "createJob"
    /\ jobs' = Append(jobs, createJob(runners[q].dataset))
    /\ runners' = [runners EXCEPT ![q] =
           [@ EXCEPT !.pc = "done", !.job = Len(jobs) + 1,
                     !.processing = TRUE, !.response = 201]]
    /\ UNCHANGED <<client, datasets, outputs, now>>

SubmitNext ==
    \/ \E q \in Requests, id \in SubmittedIds : Post_receive(q, id)
    \/ \E q \in Requests : Post_missing(q)
    \/ \E q \in Requests : Post_format(q)
    \/ \E q \in Requests : Post_lookup(q)
    \/ \E q \in Requests : Post_createDataset(q)
    \/ \E q \in Requests : Post_createJob(q)

SubmitSpec == SubmitInit /\ [][SubmitNext]_vars

\* the accepted submissions: the requests answered 201
Accepted == {q \in Requests : runners[q].response = 201}

\* C22: there is one dataset record per external id, and every accepted
\* submission added one job of its own, pending with progress 0, that
\* references the dataset of the submitted id; there are no other jobs.
C22_OneDatasetPerId ==
    /\ \A d, e \in DOMAIN datasets :
          datasets[d].huggingface_id = datasets[e].huggingface_id => d = e
    /\ \A q \in Accepted :
          /\ runners[q].job \in DOMAIN jobs
          /\ jobs[runners[q].job].status = "pending"
          /\ jobs[runners[q].job].progress = 0
          /\ jobs[runners[q].job].dataset_id \in DOMAIN datasets
          /\ datasets[jobs[runners[q].job].dataset_id].huggingface_id = runners[q].id
          /\ Cardinality({d \in DOMAIN datasets :
                            datasets[d].huggingface_id = runners[q].id}) = 1
    /\ \A p, q \in Accepted : runners[p].job = runners[q].job => p = q
    /\ Len(jobs) = Cardinality(Accepted)

\* the same id was accepted twice: two jobs, one dataset
C22_Witness ==
    \E p, q \in Accepted :
        /\ p # q
        /\ runners[p].id = runners[q].id
        /\ runners[p].job # runners[q].job
        /\ jobs[runners[p].job].dataset_id = jobs[runners[q].job].dataset_id
        /\ Len(datasets) = 1

\* the namespace/name shape: a slash with text on both sides
WellShaped(id) == \E k \in DOMAIN id : id[k] = "/" /\ k > 1 /\ k < Len(id)

\* C23: a submission whose id lacks the namespace/name shape is answered with
\* a validation error, and only well-shaped ids have dataset records (and so
\* jobs).
C23_MalformedIdRejected ==
    /\ \A q \in Requests :
          (runners[q].response # NULL /\ ~WellShaped(runners[q].id))
              => runners[q].response = 400 /\ runners[q].job = NULL
    /\ \A d \in DOMAIN datasets : WellShaped(datasets[d].huggingface_id)

\* C29: of two submissions of the same unseen valid id that are handled
\* concurrently, each is answered 201 with a pending job of its own, and both
\* jobs reference the one dataset record.
C29_ConcurrentSubmissionsSucceed ==
    \A p, q \in Requests :
        (/\ p # q
         /\ runners[p].id = runners[q].id
         /\ WellShaped(runners[p].id)
         /\ runners[p].pc = "done"
         /\ runners[q].pc = "done")
        => /\ runners[p].response = 201
           /\ runners[q].response = 201
           /\ runners[p].job # runners[q].job
           /\ jobs[runners[p].job].status = "pending"
           /\ jobs[runners[p].job].dataset_id = jobs[runners[q].job].dataset_id

\* the number of frames the invocation's frame resolution returned
ResolvedCount(r) ==
    IF runners[r].kind = P THEN Len(runners[r].frames)
    ELSE Len(stubDownloadDatasetFrames.frames)

\* C24: the dataset write that follows frame resolution leaves the dataset's
\* total_frames equal to the number N of resolved frames, for every N >= 0.
C24_TotalFramesIsResolvedCount ==
    [][\A r \in Invocations :
         (runners[r].pc = "updateDataset" /\ runners'[r].pc \notin {"updateDataset", "catch"})
            => datasets'[jobs[runners[r].job].dataset_id].total_frames
                  = ResolvedCount(r)]_vars

\* ------------------------------------------------------ the status poller
\* One page with the JobStatus component; the jobs it can be shown for exist
\* and move through their run's status writes on the server.
MaxPolls == 2

PollJobs == {1, 2}

PollInit ==
    /\ datasets = <<createDataset(<<"a", "/", "d">>)>>
    /\ jobs = [j \in PollJobs |-> createJob(1)]
    /\ outputs = <<>>
    /\ runners = [r \in Invocations |-> Idle]
    /\ now = 1
    /\ client = NoClient

\* the status writes of a run: processing first, then completed or failed
RunWrites(j, status) ==
    /\ \/ jobs[j].status = "pending" /\ status = "processing"
       \/ jobs[j].status = "processing" /\ status \in Terminal
    /\ jobs' = [jobs EXCEPT ![j] =
           updateJobStatus(@, status, IF status = "completed" THEN 100 ELSE NULL, "",
                           IF status = "failed" THEN StorageError ELSE NoMessage, now)]
    /\ UNCHANGED <<datasets, outputs, runners, now, client>>

\* the component mounts with its jobId: the effect sends the first request
\* and sets the interval
JobStatus_mount(jobId) ==
    /\ client.jobId = NULL
    /\ client' = fetchJobStatus([client EXCEPT !.jobId = jobId])
    /\ UNCHANGED <<datasets, jobs, outputs, runners, now>>

\* the jobId prop changes: the cleanup clears the interval, the effect runs
\* again; the `job` state of the component is kept
JobStatus_jobIdChanges(jobId) ==
    /\ client.jobId \notin {NULL, jobId}
    /\ client.sent < MaxPolls
    /\ client' = fetchJobStatus([client EXCEPT !.jobId = jobId])
    /\ UNCHANGED <<datasets, jobs, outputs, runners, now>>

\* setInterval(() => fetchJobStatus(), 2000) fires
JobStatus_interval ==
    /\ client.jobId # NULL
    /\ client.sent < MaxPolls
    /\ client' = fetchJobStatus(client)
    /\ UNCHANGED <<datasets, jobs, outputs, runners, now>>

\* GET /api/jobs/:id: getJobById and 200 with the job row
GetJob(n) ==
    \E f \in client.fetches :
        /\ f.n = n
        /\ f.response = NoResponse
        /\ client' = [client EXCEPT !.fetches = (@ \ {f}) \cup
               {[f EXCEPT !.response = [id |-> f.jobId, status |-> jobs[f.jobId].status]]}]
        /\ UNCHANGED <<datasets, jobs, outputs, runners, now>>

\* `await response.json()` resolves: setJob(data)
JobStatus_setJob(n) ==
    \E f \in client.fetches :
        /\ f.n = n
        /\ f.response # NoResponse
        /\ client' = [client EXCEPT !.job = f.response, !.fetches = @ \ {f}]
        /\ UNCHANGED <<datasets, jobs, outputs, runners, now>>

PollNext ==
    \/ \E j \in PollJobs, status \in {"processing", "completed", "failed"} :
          RunWrites(j, status)
    \/ \E jobId \in PollJobs : JobStatus_mount(jobId)
    \/ \E jobId \in PollJobs : JobStatus_jobIdChanges(jobId)
    \/ JobStatus_interval
    \/ \E n \in 1..MaxPolls : GetJob(n)
    \/ \E n \in 1..MaxPolls : JobStatus_setJob(n)

PollSpec == PollInit /\ [][PollNext]_vars

\* C25: once a response with status completed or failed has been received
\* for the current job, the poller sends no further status request for it.
C25_PollingStopsWhenTerminal ==
    [][(/\ client.job.id = client.jobId
        /\ client.job.status \in Terminal
        /\ client'.jobId = client.jobId)
       => client'.sent = client.sent]_vars

\* C30: the displayed job is never another job than the current one, and its
\* status never goes back from completed or failed to pending or processing.
C30_DisplayIsLatest ==
    [][/\ client'.job # NoJob => client'.job.id = client'.jobId
       /\ (client.job.status \in Terminal /\ client'.job.id = client.job.id)
             => client'.job.status \in Terminal]_vars

\* the steps that await updateJobProgress
ProgressOnly(r) ==
    \/ runners[r].kind = P /\ runners[r].pc \in {"progress30", "frameProgress"}
    \/ runners[r].kind = D /\ runners[r].pc \in {"progress10", "progress30", "progress70"}

\* C26: a job has an error_message only while its status is failed, and a
\* progress-only update changes neither the status nor the error_message.
C26_ErrorMessageOnlyWhenFailed ==
    [][/\ \A j \in DOMAIN jobs' :
             jobs'[j].error_message # NoMessage => jobs'[j].status = "failed"
       /\ \A r \in Invocations :
             (ProgressOnly(r) /\ runners'[r] # runners[r]) =>
                 /\ jobs'[runners[r].job].status = jobs[runners[r].job].status
                 /\ jobs'[runners[r].job].error_message
                        = jobs[runners[r].job].error_message]_vars

\* a job that had ended is processing again and carries no error_message
C26_Witness ==
    \E j \in DOMAIN jobs :
        /\ jobs[j].status = "processing"
        /\ jobs[j].completed_at # NULL
        /\ jobs[j].error_message = NoMessage
        /\ jobs[j].progress = 10

\* ------------------------------------------ downloadDatasetFrames alone
\* One call of downloadDatasetFrames for every repository listing, every
\* bound from 0 to one more than the listing can hold, and every set of
\* files whose download succeeds.
NoResult == [frames |-> <<>>, totalFrames |-> NULL, metadata |-> NoMetadata]

ProviderInit ==
    /\ datasets = <<>>
    /\ jobs = <<>>
    /\ outputs = <<>>
    /\ \E listing \in Listings, limit \in 0..(MaxFiles + 1),
          downloaded \in SUBSET (0..(MaxFiles - 1)) :
            runners = [pc |-> "called", listing |-> listing, maxFrames |-> limit,
                       downloaded |-> downloaded, result |-> NoResult]
    /\ now = 1
    /\ client = NoClient

\* const dataset = await downloadDatasetFrames(huggingfaceId, jobDir, maxFrames)
ProviderReturns ==
    /\ runners.pc = "called"
    /\ runners' = [runners EXCEPT
           !.pc = "returned",
           !.result = downloadDatasetFrames(runners.listing, runners.maxFrames,
                                            runners.downloaded)]
    /\ UNCHANGED <<datasets, jobs, outputs, now, client>>

ProviderNext == ProviderReturns

ProviderSpec == ProviderInit /\ [][ProviderNext]_vars

\* C27: downloadDatasetFrames returns at most maxFrames frames, for every
\* maxFrames >= 0 and every listing, and totalFrames is the number of frames
\* returned.
C27_FramesCapped ==
    runners.pc = "returned" =>
        /\ Len(runners.result.frames) <= runners.maxFrames
        /\ runners.result.totalFrames = Len(runners.result.frames)

\* ------------------------------------------------------- ensureDatabase
\* Two calls of ensureDatabase in one process, each store statement one step.
\* A table variable holds NoTable while its table does not exist.
Calls == {1, 2}

NoTable == <<"relation does not exist">>

TableNames == {"datasets", "processing_jobs", "compressed_outputs"}

\* the tables of the database that exist
Existing ==
    {name \in TableNames :
        \/ name = "datasets" /\ datasets # NoTable
        \/ name = "processing_jobs" /\ jobs # NoTable
        \/ name = "compressed_outputs" /\ outputs # NoTable}

NoCall == [pc |-> "idle", exists |-> {}]

DbInit ==
    /\ datasets \in {NoTable, <<>>}
    /\ jobs \in {NoTable, <<>>}
    /\ outputs \in {NoTable, <<>>}
    /\ jobs # NoTable => datasets # NoTable
    /\ outputs # NoTable => jobs # NoTable
    /\ runners = [isInitialized |-> FALSE, calls |-> [c \in Calls |-> NoCall]]
    /\ now = 1
    /\ client = NoClient

CallAt(c, pc) == runners.calls[c].pc = pc

CallGoto(c, pc) == [runners EXCEPT !.calls[c].pc = pc]

\* ensureDatabase: `if (isInitialized) return`, else initializeDatabase starts
ensureDatabase(c) ==
    /\ CallAt(c, "idle")
    /\ runners' = CallGoto(c, IF runners.isInitialized THEN "returned" ELSE "datasetsExists")
    /\ UNCHANGED <<datasets, jobs, outputs, now, client>>

\* const <name>Exists = await tableExists(<name>)
tableExists(c, pc, name, next) ==
    /\ CallAt(c, pc)
    /\ runners' = [runners EXCEPT
           !.calls[c].pc = next,
           !.calls[c].exists = IF name \in Existing THEN @ \cup {name} ELSE @]
    /\ UNCHANGED <<datasets, jobs, outputs, now, client>>

\* the position after the checks, or after the statements for a table: the
\* next table this call found missing, or the end of initializeDatabase
AfterTable(c, done) ==
    LET missing == (TableNames \ runners.calls[c].exists) \ done
    IN  IF "datasets" \in missing THEN "createDatasets"
        ELSE IF "processing_jobs" \in missing THEN "createJobs"
        ELSE IF "compressed_outputs" \in missing THEN "createOutputs"
        ELSE "initialized"

initializeDatabase_datasetsExists(c) ==
    /\ CallAt(c, "datasetsExists")
    /\ tableExists(c, "datasetsExists", "datasets", "jobsExists")

initializeDatabase_jobsExists(c) ==
    /\ CallAt(c, "jobsExists")
    /\ tableExists(c, "jobsExists", "processing_jobs", "outputsExists")

\* the third check, then `if (datasetsExists && jobsExists && outputsExists) return`
initializeDatabase_outputsExists(c) ==
    /\ CallAt(c, "outputsExists")
    /\ LET exists == runners.calls[c].exists
                     \cup (IF "compressed_outputs" \in Existing
                           THEN {"compressed_outputs"} ELSE {})
           missing == TableNames \ exists
       IN  runners' = [runners EXCEPT
               !.calls[c].exists = exists,
               !.calls[c].pc = IF "datasets" \in missing THEN "createDatasets"
                               ELSE IF "processing_jobs" \in missing THEN "createJobs"
                               ELSE IF "compressed_outputs" \in missing THEN "createOutputs"
                               ELSE "initialized"]
    /\ UNCHANGED <<datasets, jobs, outputs, now, client>>

\* await sql`CREATE TABLE datasets (...)`: fails when the relation exists, and
\* the catch rethrows 'Failed to initialize database'
initializeDatabase_createDatasets(c) ==
    /\ CallAt(c, "createDatasets")
    /\ IF datasets = NoTable
       THEN datasets' = <<>> /\ runners' = CallGoto(c, "indexDatasets")
       ELSE UNCHANGED datasets /\ runners' = CallGoto(c, "failed")
    /\ UNCHANGED <<jobs, outputs, now, client>>

\* await sql`CREATE INDEX idx_datasets_huggingface_id ...`
initializeDatabase_indexDatasets(c) ==
    /\ CallAt(c, "indexDatasets")
    /\ runners' = CallGoto(c, AfterTable(c, {"datasets"}))
    /\ UNCHANGED <<datasets, jobs, outputs, now, client>>

initializeDatabase_createJobs(c) ==
    /\ CallAt(c, "createJobs")
    /\ IF jobs = NoTable /\ datasets # NoTable
       THEN jobs' = <<>> /\ runners' = CallGoto(c, "indexJobs")
       ELSE UNCHANGED jobs /\ runners' = CallGoto(c, "failed")
    /\ UNCHANGED <<datasets, outputs, now, client>>

\* the two CREATE INDEX statements on processing_jobs
initializeDatabase_indexJobs(c) ==
    /\ CallAt(c, "indexJobs")
    /\ runners' = CallGoto(c, AfterTable(c, {"datasets", "processing_jobs"}))
    /\ UNCHANGED <<datasets, jobs, outputs, now, client>>

initializeDatabase_createOutputs(c) ==
    /\ CallAt(c, "createOutputs")
    /\ IF outputs = NoTable /\ jobs # NoTable
       THEN outputs' = <<>> /\ runners' = CallGoto(c, "indexOutputs")
       ELSE UNCHANGED outputs /\ runners' = CallGoto(c, "failed")
    /\ UNCHANGED <<datasets, jobs, now, client>>

initializeDatabase_indexOutputs(c) ==
    /\ CallAt(c, "indexOutputs")
    /\ runners' = CallGoto(c, "initialized")
    /\ UNCHANGED <<datasets, jobs, outputs, now, client>>

\* `await initializeDatabase()` resolves: isInitialized = true
ensureDatabase_initialized(c) ==
    /\ CallAt(c, "initialized")
    /\ runners' = [runners EXCEPT !.isInitialized = TRUE, !.calls[c].pc = "returned"]
    /\ UNCHANGED <<datasets, jobs, outputs, now, client>>

DbNext ==
    \/ \E c \in Calls : ensureDatabase(c)
    \/ \E c \in Calls : initializeDatabase_datasetsExists(c)
    \/ \E c \in Calls : initializeDatabase_jobsExists(c)
    \/ \E c \in Calls : initializeDatabase_outputsExists(c)
    \/ \E c \in Calls : initializeDatabase_createDatasets(c)
    \/ \E c \in Calls : initializeDatabase_indexDatasets(c)
    \/ \E c \in Calls : initializeDatabase_createJobs(c)
    \/ \E c \in Calls : initializeDatabase_indexJobs(c)
    \/ \E c \in Calls : initializeDatabase_createOutputs(c)
    \/ \E c \in Calls : initializeDatabase_indexOutputs(c)
    \/ \E c \in Calls : ensureDatabase_initialized(c)

DbSpec == DbInit /\ [][DbNext]_vars

\* C28: of two ensureDatabase calls on a database that misses tables, neither
\* fails, and isInitialized is true only when all three tables exist.
C28_InitializationIsReentrant ==
    /\ \A c \in Calls : runners.calls[c].pc # "failed"
    /\ runners.isInitialized => Existing = TableNames

====
